---- MODULE Spec2Model ----
(***************************************************************************)
(* devctx: token estimation (tokens.js), budget trimming (trimTobudget)    *)
(* and prompt composition (prompts.js), modelled on an explicit object     *)
(* heap so that copies, aliasing and in-place array pushes are visible;    *)
(* the .devctx store (storage.js), the tool handlers and their dispatcher  *)
(* (handlers.js), the HTTP/SSE server (http.js) and the editor setup       *)
(* (setup.js).                                                             *)
(***************************************************************************)
EXTENDS Integers, Sequences, FiniteSets, TLC

VARIABLES entry, out, disk, http, editor

vars == <<entry, out, disk, http, editor>>

(***************************************************************************)
(* JavaScript values.                                                      *)
(*   text   : a string, or one of the two sentinels Null / Undefined       *)
(*   list   : [null |-> BOOLEAN, items |-> Seq]  (null = absent field)     *)
(*   approach entry : [kind, text, description, failed, reason]            *)
(***************************************************************************)
Null == "<null>"
Undefined == "<undefined>"

\* !text  (null, undefined and "" are falsy)
Falsy(text) == text = Null \/ text = Undefined \/ text = ""

\* `${v}` : template-literal rendering of a text value
ToStr(v) == IF v = Null THEN "null" ELSE IF v = Undefined THEN "undefined" ELSE v

\* the values a `failed` property can hold
FTrue == "true"
FFalse == "false"
FUndefined == "undefined"
FString == "'no'"

\* truthiness of a `failed` value (a non-empty string is truthy)
Truthy(f) == f = FTrue \/ f = FString

StrApproach(s) ==
    [kind |-> "string", text |-> s, description |-> Undefined,
     failed |-> FUndefined, reason |-> Undefined]
ObjApproach(d, f, r) ==
    [kind |-> "object", text |-> Undefined, description |-> d,
     failed |-> f, reason |-> r]
NullApproach ==
    [kind |-> "null", text |-> Undefined, description |-> Undefined,
     failed |-> FUndefined, reason |-> Undefined]

\* typeof a === "object"  (true of null as well)
TypeofObject(a) == a.kind = "object" \/ a.kind = "null"

NullList == [null |-> TRUE, items |-> <<>>]
List(s) == [null |-> FALSE, items |-> s]

(***************************************************************************)
(* tokens.js                                                               *)
(***************************************************************************)
TIER ==
    [MINIMAL  |-> [name |-> "minimal",  budget |-> 80],
     STANDARD |-> [name |-> "standard", budget |-> 250],
     FULL     |-> [name |-> "full",     budget |-> 600]]

\* Math.ceil(n / 4)
Ceil4(n) == (n + 3) \div 4

countTokens(text) == IF Falsy(text) THEN 0 ELSE Ceil4(Len(text))

(***************************************************************************)
(* The heap: objects (context records whose list fields hold array         *)
(* references, 0 = null) and arrays.  An address is an index.              *)
(***************************************************************************)
NullRef == 0

\* sequencing: the value v of one statement, handed to the rest of the function
Then(v, Rest(_)) == CHOOSE r \in {Rest(x) : x \in {v}} : TRUE
EmptyHeap == [objs |-> <<>>, arrs |-> <<>>]

\* x.unshift(v)
unshift(h, a, v) == [h EXCEPT !.arrs[a] = <<v>> \o @]

\* x.push(v)
push(h, a, v) == [h EXCEPT !.arrs[a] = Append(@, v)]

\* (ref || [])
ReadList(h, ref) == IF ref = NullRef THEN <<>> ELSE h.arrs[ref]

ListFields == <<"nextSteps", "decisions", "approaches", "constraints", "filesChanged">>

\* a record value placed on the heap: one object and one array per non-null list
RECURSIVE AllocLists(_, _, _, _)
AllocLists(h, o, rec, fs) ==
    IF fs = <<>> THEN h
    ELSE LET f == Head(fs) IN
         IF rec[f].null
         THEN AllocLists([h EXCEPT !.objs[o][f] = NullRef], o, rec, Tail(fs))
         ELSE AllocLists([h EXCEPT !.arrs = Append(@, rec[f].items),
                                   !.objs[o][f] = Len(h.arrs) + 1], o, rec, Tail(fs))

Alloc(h, rec) ==
    LET o == Len(h.objs) + 1
        h1 == [h EXCEPT !.objs = Append(@, rec)]
    IN [heap |-> AllocLists(h1, o, rec, ListFields), ref |-> o]

\* the value of the object at ref, arrays read through their references
Deep(h, ref) ==
    LET o == h.objs[ref]
        box(r) == IF r = NullRef THEN NullList ELSE List(h.arrs[r])
    IN [o EXCEPT !.nextSteps = box(o.nextSteps), !.decisions = box(o.decisions),
                 !.approaches = box(o.approaches), !.constraints = box(o.constraints),
                 !.filesChanged = box(o.filesChanged)]

(***************************************************************************)
(* trimTobudget(entry, budget)                                             *)
(***************************************************************************)
\* const trimmed = entry
Alias(h, e) == [heap |-> h, ref |-> e]

\* const trimmed = { ...entry }
ShallowCopy(h, e) ==
    [heap |-> [h EXCEPT !.objs = Append(@, h.objs[e])], ref |-> Len(h.objs) + 1]

\* trimmed.<field> = []
FreshArray(h, t, field) ==
    [h EXCEPT !.arrs = Append(@, <<>>), !.objs[t][field] = Len(h.arrs) + 1]

\* the goal charged whether or not it is kept
goalStepAlwaysCharged(h, t, used, budget) ==
    LET g == countTokens(h.objs[t].goal) IN
    IF used + g <= budget
    THEN [heap |-> h, used |-> used + g]
    ELSE [heap |-> [h EXCEPT !.objs[t].goal = Null], used |-> used + g]

\* the goal test with < for <=
goalStepStrict(h, t, used, budget) ==
    LET g == countTokens(h.objs[t].goal) IN
    IF used + g < budget
    THEN [heap |-> h, used |-> used + g]
    ELSE [heap |-> [h EXCEPT !.objs[t].goal = Null], used |-> used]

\* if (used + countTokens(trimmed.goal) <= budget) used += ...; else trimmed.goal = null
goalStep(h, t, used, budget) ==
    LET g == countTokens(h.objs[t].goal) IN
    IF used + g <= budget
    THEN [heap |-> h, used |-> used + g]
    ELSE [heap |-> [h EXCEPT !.objs[t].goal = Null], used |-> used]

\* the loop with continue for break: an item that does not fit is skipped
RECURSIVE pushSkipping(_, _, _, _, _, _)
pushSkipping(h, arr, items, costs, used, budget) ==
    IF items = <<>> THEN [heap |-> h, used |-> used]
    ELSE IF used + Head(costs) <= budget
         THEN pushSkipping(push(h, arr, Head(items)), arr, Tail(items), Tail(costs),
                           used + Head(costs), budget)
         ELSE pushSkipping(h, arr, Tail(items), Tail(costs), used, budget)

\* the loop with the item's own cost left out of the test: if (used <= budget)
RECURSIVE pushWhileRoom(_, _, _, _, _, _)
pushWhileRoom(h, arr, items, costs, used, budget) ==
    IF items = <<>> THEN [heap |-> h, used |-> used]
    ELSE IF used <= budget
         THEN pushWhileRoom(push(h, arr, Head(items)), arr, Tail(items), Tail(costs),
                            used + Head(costs), budget)
         ELSE [heap |-> h, used |-> used]

\* the loop letting a zero-cost item through untested: if (!t || used + t <= budget)
RECURSIVE pushFreeItems(_, _, _, _, _, _)
pushFreeItems(h, arr, items, costs, used, budget) ==
    IF items = <<>> THEN [heap |-> h, used |-> used]
    ELSE IF Head(costs) = 0 \/ used + Head(costs) <= budget
         THEN pushFreeItems(push(h, arr, Head(items)), arr, Tail(items), Tail(costs),
                            used + Head(costs), budget)
         ELSE [heap |-> h, used |-> used]

\* for (const x of items) { if (used + t <= budget) { arr.push(x); used += t } else break }
RECURSIVE pushWhileFit(_, _, _, _, _, _)
pushWhileFit(h, arr, items, costs, used, budget) ==
    IF items = <<>> THEN [heap |-> h, used |-> used]
    ELSE IF used + Head(costs) <= budget
         THEN pushWhileFit(push(h, arr, Head(items)), arr, Tail(items), Tail(costs),
                           used + Head(costs), budget)
         ELSE [heap |-> h, used |-> used]

textCosts(items) == [i \in DOMAIN items |-> countTokens(items[i])]

nextStepsPass(h, e, t, used, budget) ==
    Then(FreshArray(h, t, "nextSteps"), LAMBDA h1 :
    Then(ReadList(h1, h1.objs[e].nextSteps), LAMBDA items :
        pushWhileFit(h1, h1.objs[t].nextSteps, items, textCosts(items), used, budget)))

\* decisions taken only when every next step was
decisionsAfterAllSteps(h, e, t, used, budget) ==
    Then(FreshArray(h, t, "decisions"), LAMBDA h1 :
        IF Len(ReadList(h1, h1.objs[t].nextSteps)) < Len(ReadList(h1, h1.objs[e].nextSteps))
        THEN [heap |-> h1, used |-> used]
        ELSE Then(ReadList(h1, h1.objs[e].decisions), LAMBDA items :
                 pushWhileFit(h1, h1.objs[t].decisions, items, textCosts(items), used,
                              budget)))

decisionsPass(h, e, t, used, budget) ==
    Then(FreshArray(h, t, "decisions"), LAMBDA h1 :
    Then(ReadList(h1, h1.objs[e].decisions), LAMBDA items :
        pushWhileFit(h1, h1.objs[t].decisions, items, textCosts(items), used, budget)))

\* a => typeof a === "object" && a.failed      (reading .failed of null throws)
failedFilterThrows(items) == \E i \in DOMAIN items : items[i].kind = "null"
isFailed(a) == TypeofObject(a) /\ Truthy(a.failed)
failedFilter(items) == SelectSeq(items, isFailed)

approachCosts(items) ==
    [i \in DOMAIN items |-> countTokens(items[i].description) + countTokens(items[i].reason)]

approachesPass(h, e, t, used, budget) ==
    Then(FreshArray(h, t, "approaches"), LAMBDA h1 :
    Then(ReadList(h1, h1.objs[e].approaches), LAMBDA items :
        IF failedFilterThrows(items)
        THEN [heap |-> h1, used |-> used, threw |-> TRUE]
        ELSE Then(failedFilter(items), LAMBDA failed :
             Then(pushWhileFit(h1, h1.objs[t].approaches, failed, approachCosts(failed),
                               used, budget), LAMBDA r :
                 [heap |-> r.heap, used |-> r.used, threw |-> FALSE]))))

constraintsUncharged(h, e, t, used, budget) ==
    Then(FreshArray(h, t, "constraints"), LAMBDA h1 :
    Then(ReadList(h1, h1.objs[e].constraints), LAMBDA items :
        pushWhileFit(h1, h1.objs[t].constraints, items, [i \in DOMAIN items |-> 0],
                     used, budget)))

constraintsPass(h, e, t, used, budget) ==
    Then(FreshArray(h, t, "constraints"), LAMBDA h1 :
    Then(ReadList(h1, h1.objs[e].constraints), LAMBDA items :
        pushWhileFit(h1, h1.objs[t].constraints, items, textCosts(items), used, budget)))

tierOfExclusive(budget) ==
    IF budget < TIER.MINIMAL.budget THEN "minimal"
    ELSE IF budget < TIER.STANDARD.budget THEN "standard" ELSE "full"

tierOf(budget) ==
    IF budget <= TIER.MINIMAL.budget THEN "minimal"
    ELSE IF budget <= TIER.STANDARD.budget THEN "standard" ELSE "full"

baseline(o) == countTokens(o.task) + countTokens(o.state)

\* trimmed._tokenCount = used; trimmed._tier = ...; return trimmed
finish(k, t, budget) ==
    [threw |-> FALSE,
     heap |-> [k.heap EXCEPT !.objs[t]._tokenCount = k.used,
                             !.objs[t]._tier = tierOf(budget)],
     ref |-> t]

\* the statements of the function in order, each on the heap the last one left
trimTobudget(h, e, budget) ==
    Then(ShallowCopy(h, e), LAMBDA c :
    Then(goalStep(c.heap, c.ref, baseline(c.heap.objs[c.ref]), budget), LAMBDA g :
    Then(nextStepsPass(g.heap, e, c.ref, g.used, budget), LAMBDA n :
    Then(decisionsPass(n.heap, e, c.ref, n.used, budget), LAMBDA d :
    Then(approachesPass(d.heap, e, c.ref, d.used, budget), LAMBDA a :
        IF a.threw
        THEN [threw |-> TRUE, heap |-> a.heap, ref |-> c.ref]
        ELSE Then(constraintsPass(a.heap, e, c.ref, a.used, budget), LAMBDA k :
                 finish(k, c.ref, budget)))))))

(***************************************************************************)
(* countEntryTokens(entry)                                                 *)
(***************************************************************************)
\* a => typeof a === "object" ? `${a.description} ${a.reason || ""}` : a
approachText(a) ==
    IF TypeofObject(a)
    THEN ToStr(a.description) \o " " \o (IF Falsy(a.reason) THEN "" ELSE a.reason)
    ELSE a.text

RECURSIVE sumTokens(_)
sumTokens(parts) ==
    IF parts = <<>> THEN 0 ELSE countTokens(Head(parts)) + sumTokens(Tail(parts))

countEntryTokens(h, e) ==
    LET o == h.objs[e]
        approaches == ReadList(h, o.approaches)
    IN IF \E i \in DOMAIN approaches : approaches[i].kind = "null"
       THEN [threw |-> TRUE, value |-> 0]
       ELSE [threw |-> FALSE,
             value |-> sumTokens(<<o.task, o.goal, o.state>>
                                 \o ReadList(h, o.decisions)
                                 \o ReadList(h, o.nextSteps)
                                 \o ReadList(h, o.constraints)
                                 \o [i \in DOMAIN approaches |-> approachText(approaches[i])]
                                 \o ReadList(h, o.filesChanged))]

(***************************************************************************)
(* prompts.js                                                              *)
(***************************************************************************)
\* Array.prototype.join over strings
RECURSIVE join(_, _)
join(s, sep) ==
    IF s = <<>> THEN ""
    ELSE IF Len(s) = 1 THEN s[1] ELSE s[1] \o sep \o join(Tail(s), sep)

\* text?.slice(0, n), rendered in a template literal
sliceTo(text, n) ==
    IF text = Null \/ text = Undefined THEN "undefined"
    ELSE IF Len(text) <= n THEN text ELSE SubSeq(text, 1, n)

failedTextBare(a) == ToStr(a.description)

\* `${a.description}${a.reason ? ` (${a.reason})` : ""}`
failedText(a) ==
    ToStr(a.description) \o (IF Falsy(a.reason) THEN "" ELSE " (" \o a.reason \o ")")

\* the long dash of the source is written "-" (one character, as in the source)
failedLine(failed) ==
    IF failed = <<>> THEN <<>>
    ELSE <<"Already failed - do NOT suggest: "
           \o join([i \in DOMAIN failed |-> failedText(failed[i])], " | ")>>

nextLinesAnyTier(nextSteps, tier) ==
    IF nextSteps = <<>> THEN <<>>
    ELSE <<"Next: " \o nextSteps[1]>>
         \o (IF Len(nextSteps) > 1
             THEN <<"Backlog: " \o join(Tail(nextSteps), " | ")>> ELSE <<>>)

nextLines(nextSteps, tier) ==
    IF nextSteps = <<>> THEN <<>>
    ELSE <<"Next: " \o nextSteps[1]>>
         \o (IF Len(nextSteps) > 1 /\ tier # TIER.MINIMAL
             THEN <<"Backlog: " \o join(Tail(nextSteps), " | ")>> ELSE <<>>)

closingLineStepsFirst(focusQuestion, nextSteps) ==
    IF nextSteps # <<>>
    THEN "\nContinue from next step. Ask clarifying questions if needed."
    ELSE IF ~Falsy(focusQuestion) THEN "\nFocus: " \o focusQuestion
    ELSE "\nConfirm you understand the context, then ask what to work on."

closingLine(focusQuestion, nextSteps) ==
    IF ~Falsy(focusQuestion) THEN "\nFocus: " \o focusQuestion
    ELSE IF nextSteps # <<>>
         THEN "\nContinue from next step. Ask clarifying questions if needed."
         ELSE "\nConfirm you understand the context, then ask what to work on."

buildPrompt(h, entryRef, tier, focusQuestion) ==
    Then(trimTobudget(h, entryRef, tier.budget), LAMBDA r :
    IF r.threw
    THEN [threw |-> TRUE, heap |-> r.heap, failed |-> <<>>, parts |-> <<>>, text |-> ""]
    ELSE LET e == r.heap.objs[r.ref]
             src == r.heap.objs[entryRef]
             constraints == ReadList(r.heap, e.constraints)
             decisions == ReadList(r.heap, e.decisions)
             failed == failedFilter(ReadList(r.heap, e.approaches))
             nextSteps == ReadList(r.heap, e.nextSteps)
             parts ==
                 <<"You are pair-programming on: " \o ToStr(e.task)>>
                 \o (IF Falsy(e.goal) THEN <<>> ELSE <<"Why: " \o e.goal>>)
                 \o (IF Falsy(e.state) THEN <<>> ELSE <<"State: " \o e.state>>)
                 \o (IF constraints = <<>> THEN <<>>
                     ELSE <<"Constraints: " \o join(constraints, " | ")>>)
                 \o (IF decisions = <<>> THEN <<>>
                     ELSE <<"Settled decisions (don't relitigate): "
                            \o join(decisions, " | ")>>)
                 \o failedLine(failed)
                 \o nextLines(nextSteps, tier)
                 \o <<"Branch: " \o ToStr(src.branch) \o " | Saved: "
                      \o sliceTo(src.timestamp, 10)>>
                 \o <<closingLine(focusQuestion, nextSteps)>>
         IN [threw |-> FALSE, heap |-> r.heap, failed |-> failed, parts |-> parts,
             text |-> join(parts, "\n")])

buildHandoffAsResume(h, entryRef, fromUser, toUser) ==
    buildPrompt(h, entryRef, TIER.FULL, Null)

\* the arrow of the source's first line is written ">" (one character, as in the source)
buildHandoff(h, entryRef, fromUser, toUser) ==
    Then(trimTobudget(h, entryRef, TIER.FULL.budget), LAMBDA r :
    IF r.threw
    THEN [threw |-> TRUE, heap |-> r.heap, failed |-> <<>>, parts |-> <<>>, text |-> ""]
    ELSE LET e == r.heap.objs[r.ref]
             src == r.heap.objs[entryRef]
             decisions == ReadList(r.heap, e.decisions)
             failed == failedFilter(ReadList(r.heap, e.approaches))
             nextSteps == ReadList(r.heap, e.nextSteps)
             parts ==
                 <<"HANDOFF: " \o ToStr(fromUser) \o " > " \o ToStr(toUser),
                   "Task: " \o ToStr(e.task)>>
                 \o (IF Falsy(e.goal) THEN <<>> ELSE <<"Why: " \o e.goal>>)
                 \o (IF Falsy(e.state) THEN <<>> ELSE <<"Where we left off: " \o e.state>>)
                 \o (IF decisions = <<>> THEN <<>>
                     ELSE <<"Settled (don't re-debate): " \o join(decisions, " | ")>>)
                 \o (IF failed = <<>> THEN <<>>
                     ELSE <<"These failed: "
                            \o join([i \in DOMAIN failed |-> ToStr(failed[i].description)],
                                    " | ")>>)
                 \o (IF nextSteps = <<>> THEN <<>>
                     ELSE <<"Your first move: " \o nextSteps[1]>>
                          \o (IF Len(nextSteps) > 1
                              THEN <<"Then: " \o join(Tail(nextSteps), " | ")>> ELSE <<>>))
                 \o <<"Branch: " \o ToStr(src.branch)>>
         IN [threw |-> FALSE, heap |-> r.heap, failed |-> failed, parts |-> parts,
             text |-> join(parts, "\n")])

\* no record: what a failed call or lookup leaves in place of one
NoRecord ==
    [task |-> Undefined, goal |-> Undefined, state |-> Undefined,
     nextSteps |-> NullList, decisions |-> NullList, approaches |-> NullList,
     constraints |-> NullList, filesChanged |-> NullList,
     branch |-> Undefined, timestamp |-> Undefined, commitHash |-> Undefined,
     tokenCount |-> 0, _tokenCount |-> 0, _tier |-> Undefined]

(***************************************************************************)
(* storage.js: the .devctx directory.  disk.config is config.json,         *)
(* disk.files the {id}.json files and disk.index the index.json files of   *)
(* the branch directories; disk.clock is the time of the last call and     *)
(* disk.log the saveContext calls that returned, oldest first.  Of         *)
(* config.json only maxEntriesPerBranch is read by an operation, and only  *)
(* it is kept.  Of a record's meta only commitHash is read, and it is kept *)
(* as a field of the record; author is read by no operation and left out.  *)
(***************************************************************************)
NoDisk ==
    [clock |-> 0,
     config |-> [exists |-> FALSE, maxEntriesPerBranch |-> 0],
     files |-> {}, index |-> {}, log |-> <<>>]

isInitialized(d) == d.config.exists

initRepoAnew(d) == [d EXCEPT !.config = [exists |-> TRUE, maxEntriesPerBranch |-> 20]]

initRepo(d) ==
    IF d.config.exists THEN d
    ELSE [d EXCEPT !.config = [exists |-> TRUE, maxEntriesPerBranch |-> 20]]

\* the characters the branch directory name keeps
SafeChars ==
    {"a", "b", "c", "d", "e", "f", "g", "h", "i", "j", "k", "l", "m",
     "n", "o", "p", "q", "r", "s", "t", "u", "v", "w", "x", "y", "z",
     "A", "B", "C", "D", "E", "F", "G", "H", "I", "J", "K", "L", "M",
     "N", "O", "P", "Q", "R", "S", "T", "U", "V", "W", "X", "Y", "Z",
     "0", "1", "2", "3", "4", "5", "6", "7", "8", "9", ".", "_", "-"}

\* branch.replace(/[^a-zA-Z0-9._-]/g, "_")
RECURSIVE sanitize(_)
sanitize(branch) ==
    IF branch = "" THEN ""
    ELSE (IF SubSeq(branch, 1, 1) \in SafeChars THEN SubSeq(branch, 1, 1) ELSE "_")
         \o sanitize(SubSeq(branch, 2, Len(branch)))

\* `${Date.now()}_${Math.random().toString(36).slice(2, 6)}`
newId(now, rand) == ToString(now) \o "_" \o rand

\* new Date().toISOString(), for the first milliseconds of a second
toISOString(now) == "2026-01-02T03:04:05.00" \o ToString(now) \o "Z"

sliceNothing(entries, n) == entries

\* array.slice(0, n)
sliceEntries(entries, n) ==
    IF n >= Len(entries) THEN entries
    ELSE IF n >= 0 THEN SubSeq(entries, 1, n)
    ELSE IF Len(entries) + n <= 0 THEN <<>> ELSE SubSeq(entries, 1, Len(entries) + n)

hasIndex(d, dir) == \E x \in d.index : x.dir = dir
readIndex(d, dir) == (CHOOSE x \in d.index : x.dir = dir).entries
writeIndex(d, dir, entries) ==
    [d EXCEPT !.index = {x \in @ : x.dir # dir} \cup {[dir |-> dir, entries |-> entries]}]

hasFile(d, dir, id) == \E x \in d.files : x.dir = dir /\ x.id = id
readFile(d, dir, id) == (CHOOSE x \in d.files : x.dir = dir /\ x.id = id).rec
writeFile(d, dir, id, rec) ==
    [d EXCEPT !.files = {x \in @ : ~(x.dir = dir /\ x.id = id)}
                            \cup {[dir |-> dir, id |-> id, rec |-> rec]}]

\* the object literal `full`, tokenCount still 0
fullRecord(e, now) ==
    [task |-> IF Falsy(e.task) THEN "" ELSE e.task,
     goal |-> IF Falsy(e.goal) THEN Null ELSE e.goal,
     state |-> IF Falsy(e.state) THEN Null ELSE e.state,
     approaches |-> List(e.approaches.items), decisions |-> List(e.decisions.items),
     nextSteps |-> List(e.nextSteps.items), constraints |-> List(e.constraints.items),
     filesChanged |-> List(e.filesChanged.items),
     branch |-> IF Falsy(e.branch) THEN "main" ELSE e.branch,
     timestamp |-> toISOString(now), commitHash |-> e.commitHash,
     tokenCount |-> 0, _tokenCount |-> 0, _tier |-> Undefined]

maxEntries(d) ==
    IF d.config.exists /\ d.config.maxEntriesPerBranch # 0
    THEN d.config.maxEntriesPerBranch ELSE 20

\* saveContext(entry) at time now, with rand the random suffix of the id
saveContext(d, e, now, rand) ==
    Then(initRepo(d), LAMBDA d1 :
    Then(fullRecord(e, now), LAMBDA full0 :
    Then(countEntryTokens(Alloc(EmptyHeap, full0).heap, 1), LAMBDA c :
        IF c.threw THEN [threw |-> TRUE, disk |-> d1, id |-> "", full |-> full0]
        ELSE LET dir == sanitize(full0.branch)
                 id == newId(now, rand)
                 full == [full0 EXCEPT !.tokenCount = c.value]
                 d2 == writeFile(d1, dir, id, full)
                 index == IF hasIndex(d2, dir) THEN readIndex(d2, dir) ELSE <<>>
                 entries == <<[id |-> id, timestamp |-> full.timestamp,
                               task |-> full.task, tokenCount |-> full.tokenCount]>>
                            \o index
                 d3 == writeIndex(d2, dir, sliceEntries(entries, maxEntries(d2)))
             IN [threw |-> FALSE,
                 disk |-> [d3 EXCEPT !.log = Append(@, [branch |-> full.branch, dir |-> dir,
                                                        id |-> id, rec |-> full])],
                 id |-> id, full |-> full])))

loadById(d, id, branch) ==
    IF hasFile(d, sanitize(branch), id)
    THEN [found |-> TRUE, rec |-> readFile(d, sanitize(branch), id)]
    ELSE [found |-> FALSE, rec |-> NoRecord]

loadLatest(d, branch) ==
    IF ~hasIndex(d, sanitize(branch)) THEN [found |-> FALSE, rec |-> NoRecord]
    ELSE IF readIndex(d, sanitize(branch)) = <<>> THEN [found |-> FALSE, rec |-> NoRecord]
    ELSE loadById(d, readIndex(d, sanitize(branch))[1].id, branch)

loadConfig(d) == d.config

\* cfg[key] = value; saveConfig(cfg)
saveConfig(d, key, value) ==
    IF key = "maxEntriesPerBranch" THEN [d EXCEPT !.config.maxEntriesPerBranch = value]
    ELSE d

\* the characters of an ISO timestamp, in collation order
Collation == "-.:0123456789TZ"
rank(c) == CHOOSE i \in 1..Len(Collation) : SubSeq(Collation, i, i) = c

\* a.localeCompare(b) on timestamps
RECURSIVE localeCompare(_, _)
localeCompare(a, b) ==
    IF a = "" THEN (IF b = "" THEN 0 ELSE -1)
    ELSE IF b = "" THEN 1
    ELSE IF SubSeq(a, 1, 1) = SubSeq(b, 1, 1)
         THEN localeCompare(SubSeq(a, 2, Len(a)), SubSeq(b, 2, Len(b)))
         ELSE IF rank(SubSeq(a, 1, 1)) < rank(SubSeq(b, 1, 1)) THEN -1 ELSE 1

\* one step of the stable sort by (a, b) => b.timestamp.localeCompare(a.timestamp):
\* e goes before the first entry that is older than it
RECURSIVE insertByTime(_, _)
insertByTime(sorted, e) ==
    IF sorted = <<>> THEN <<e>>
    ELSE IF localeCompare(e.timestamp, sorted[1].timestamp) > 0 THEN <<e>> \o sorted
    ELSE <<sorted[1]>> \o insertByTime(Tail(sorted), e)

RECURSIVE sortByTime(_, _)
sortByTime(all, sorted) ==
    IF all = <<>> THEN sorted ELSE sortByTime(Tail(all), insertByTime(sorted, all[1]))

\* the entries of the index files of the directories dirs, each tagged with
\* its directory name
RECURSIVE collect(_, _)
collect(d, dirs) ==
    IF dirs = <<>> THEN <<>>
    ELSE (IF ~hasIndex(d, dirs[1]) THEN <<>>
          ELSE LET entries == readIndex(d, dirs[1])
               IN [i \in DOMAIN entries |->
                      [id |-> entries[i].id, timestamp |-> entries[i].timestamp,
                       task |-> entries[i].task, tokenCount |-> entries[i].tokenCount,
                       branch |-> dirs[1]]])
         \o collect(d, Tail(dirs))

\* listEntries(branch, limit); readdir is the order in which readdirSync
\* lists the branch directories that hold an index
listEntries(d, branch, limit, readdir) ==
    Then(sortByTime(collect(d, IF Falsy(branch) THEN readdir ELSE <<sanitize(branch)>>), <<>>),
         LAMBDA all : sliceEntries(all, limit))

(***************************************************************************)
(* handlers.js: the tool handlers that save, resume and hand off.  branch  *)
(* is what getCurrentBranch reports, gitUser what getGitUser reports and   *)
(* changed what getChangedFiles reports at the time of the call.           *)
(***************************************************************************)
buildMinimal(h, entryRef, focus) == buildPrompt(h, entryRef, TIER.MINIMAL, focus)
buildStandard(h, entryRef, focus) == buildPrompt(h, entryRef, TIER.STANDARD, focus)
buildFull(h, entryRef, focus) == buildPrompt(h, entryRef, TIER.FULL, focus)

\* the preset of builders[tier] || buildStandard
builderTier(tier) ==
    IF tier = "minimal" THEN TIER.MINIMAL
    ELSE IF tier = "full" THEN TIER.FULL ELSE TIER.STANDARD

build(h, entryRef, tier, focus) ==
    IF tier = "minimal" THEN buildMinimal(h, entryRef, focus)
    ELSE IF tier = "full" THEN buildFull(h, entryRef, focus)
    ELSE buildStandard(h, entryRef, focus)

handleSave(d, args, branch, commit, changed, now, rand) ==
    Then(initRepo(d), LAMBDA d1 :
        saveContext(d1,
                    [args EXCEPT !.branch = branch, !.commitHash = commit,
                                 !.goal = IF Falsy(args.goal) THEN Null ELSE args.goal,
                                 !.state = IF Falsy(args.state) THEN Null ELSE args.state,
                                 !.approaches = List(args.approaches.items),
                                 !.decisions = List(args.decisions.items),
                                 !.nextSteps = List(args.nextSteps.items),
                                 !.constraints = List(args.constraints.items),
                                 !.filesChanged = IF args.filesChanged.null THEN List(changed)
                                                  ELSE args.filesChanged],
                    now, rand))

NotFound ==
    [found |-> FALSE, threw |-> FALSE, tier |-> "", budget |-> 0, promptTokens |-> 0,
     entry |-> NoRecord, value |-> NoRecord, failed |-> <<>>, parts |-> <<>>, prompt |-> ""]

handleResume(d, branch, id, tierArg, focusArg) ==
    Then(IF Falsy(id) THEN loadLatest(d, branch) ELSE loadById(d, id, branch), LAMBDA l :
        IF ~l.found THEN NotFound
        ELSE Then(IF Falsy(tierArg) THEN "standard" ELSE tierArg, LAMBDA tier :
             Then(build(Alloc(EmptyHeap, l.rec).heap, 1, tier,
                        IF Falsy(focusArg) THEN Null ELSE focusArg), LAMBDA r :
                 [found |-> TRUE, threw |-> r.threw, tier |-> tier,
                  budget |-> builderTier(tier).budget,
                  promptTokens |-> Ceil4(Len(r.text)), entry |-> l.rec,
                  value |-> IF r.threw THEN NoRecord ELSE Deep(r.heap, Len(r.heap.objs)),
                  failed |-> r.failed, parts |-> r.parts, prompt |-> r.text])))

handleHandoff(d, args, to, branch, gitUser, now, rand) ==
    Then(IF Falsy(gitUser) THEN "unknown" ELSE gitUser, LAMBDA fromUser :
    Then(saveContext(d,
                     [args EXCEPT !.branch = branch, !.commitHash = Undefined,
                                  !.approaches = List(args.approaches.items),
                                  !.decisions = List(args.decisions.items),
                                  !.nextSteps = List(args.nextSteps.items),
                                  !.constraints = NullList, !.filesChanged = NullList],
                     now, rand), LAMBDA s :
        IF s.threw
        THEN [threw |-> TRUE, disk |-> s.disk, id |-> "", full |-> s.full,
              promptTokens |-> 0, value |-> NoRecord, parts |-> <<>>, prompt |-> ""]
        ELSE Then(buildHandoff(Alloc(EmptyHeap, s.full).heap, 1, fromUser, to), LAMBDA r :
                 [threw |-> r.threw, disk |-> s.disk, id |-> s.id, full |-> s.full,
                  promptTokens |-> Ceil4(Len(r.text)),
                  value |-> IF r.threw THEN NoRecord ELSE Deep(r.heap, Len(r.heap.objs)),
                  parts |-> r.parts, prompt |-> r.text])))

(***************************************************************************)
(* handlers.js: the remaining tool handlers and the dispatcher.  A reply   *)
(* is what a handler hands to ok(), with the store it leaves; threw says   *)
(* that it raised an error instead.  ok is "true", "false" or, for a reply *)
(* without that property, "absent".                                        *)
(***************************************************************************)
NoReply ==
    [threw |-> FALSE, disk |-> NoDisk, ok |-> "absent", msg |-> "", id |-> "",
     count |-> 0, found |-> FALSE, value |-> NoRecord, entries |-> <<>>]

\* the service behind callAI at the time of a call: whether a key is set or
\* passed, the status of the HTTP reply, and its content once the code fences
\* are stripped, as the value it spells when it is JSON
NoAI == [key |-> FALSE, status |-> 0, json |-> FALSE, parsed |-> NoRecord]

callAI(ai) ==
    IF ~ai.key
    THEN [threw |-> TRUE, msg |-> "No AI key. Set DEVCTX_AI_KEY or pass aiApiKey.",
          content |-> NoAI]
    ELSE IF ~(ai.status \in 200..299)
    THEN [threw |-> TRUE, msg |-> "AI error: " \o ToString(ai.status), content |-> NoAI]
    ELSE [threw |-> FALSE, msg |-> "", content |-> ai]

\* JSON.parse(await callAI(...)) inside the try block
parseAI(ai) ==
    Then(callAI(ai), LAMBDA r :
        IF r.threw THEN [threw |-> TRUE, msg |-> r.msg, parsed |-> NoRecord]
        ELSE IF ~r.content.json
        THEN [threw |-> TRUE, msg |-> "Unexpected token", parsed |-> NoRecord]
        ELSE [threw |-> FALSE, msg |-> "", parsed |-> r.content.parsed])

handleInit(d) ==
    IF d.config.exists
    THEN [NoReply EXCEPT !.disk = d, !.ok = "true", !.msg = "Already initialized"]
    ELSE [NoReply EXCEPT !.disk = initRepo(d), !.ok = "true", !.msg = "Initialized .devctx/"]

\* limit is 0 when the caller passes none
handleLog(d, branch, limit, readdir) ==
    Then(listEntries(d, branch, IF limit = 0 THEN 10 ELSE limit, readdir), LAMBDA entries :
        [NoReply EXCEPT !.disk = d, !.count = Len(entries), !.entries = entries])

\* msg is the `since` of the reply
handleDiff(d, branch) ==
    Then(loadLatest(d, branch), LAMBDA l :
        [NoReply EXCEPT !.disk = d, !.found = l.found,
                        !.msg = IF l.found /\ ~Falsy(l.rec.commitHash)
                                THEN sliceTo(l.rec.commitHash, 8) ELSE "HEAD"])

handleShare(d, isGitRepo, staged) ==
    IF ~isGitRepo THEN [NoReply EXCEPT !.disk = d, !.ok = "false", !.msg = "Not a git repo."]
    ELSE IF staged
    THEN [NoReply EXCEPT !.disk = d, !.ok = "true",
                         !.msg = ".devctx/ staged. Commit with: git commit -m \"chore: sync devctx\""]
    ELSE [NoReply EXCEPT !.disk = d, !.ok = "false", !.msg = "Staging failed."]

handleSummarizeSavingFirst(d, ai, branch, now, rand) ==
    Then(saveContext(d, [ai.parsed EXCEPT !.branch = branch], now, rand), LAMBDA s :
    Then(parseAI(ai), LAMBDA p :
        IF p.threw THEN [NoReply EXCEPT !.disk = s.disk, !.ok = "false", !.msg = p.msg]
        ELSE [NoReply EXCEPT !.threw = s.threw, !.disk = s.disk, !.ok = "true",
                             !.id = s.id, !.count = s.full.tokenCount, !.value = s.full]))

handleSummarize(d, ai, branch, now, rand) ==
    Then(parseAI(ai), LAMBDA p :
        IF p.threw THEN [NoReply EXCEPT !.disk = d, !.ok = "false", !.msg = p.msg]
        ELSE Then(saveContext(d, [p.parsed EXCEPT !.branch = branch], now, rand), LAMBDA s :
                 [NoReply EXCEPT !.threw = s.threw, !.disk = s.disk, !.ok = "true",
                                 !.id = s.id, !.count = s.full.tokenCount,
                                 !.value = s.full]))

\* value is the record whose nextSteps, or which itself, is the suggestions
handleSuggest(d, ai, branch) ==
    Then(loadLatest(d, branch), LAMBDA l :
        IF ~l.found
        THEN [NoReply EXCEPT !.disk = d, !.ok = "false",
                             !.msg = "No context found. Run devctx_save first."]
        ELSE Then(parseAI(ai), LAMBDA p :
                 IF p.threw
                 THEN [NoReply EXCEPT !.disk = d, !.found = TRUE, !.ok = "false", !.msg = p.msg]
                 ELSE [NoReply EXCEPT !.disk = d, !.found = TRUE, !.ok = "true",
                                      !.msg = l.rec.task, !.value = p.parsed]))

handleConfigSet(d, key, value) ==
    IF ~isInitialized(d)
    THEN [NoReply EXCEPT !.disk = d, !.ok = "false", !.msg = "Not initialized."]
    ELSE [NoReply EXCEPT !.disk = saveConfig(d, key, value), !.ok = "true", !.msg = key]

\* found says that there is a config to list
handleConfigList(d) ==
    [NoReply EXCEPT !.disk = d, !.found = loadConfig(d).exists,
                    !.msg = IF loadConfig(d).exists THEN "" ELSE "Not initialized."]

\* the name property of each entry of toolsList, in order
toolsList ==
    <<"devctx_save", "devctx_resume", "devctx_log", "devctx_diff", "devctx_handoff",
      "devctx_share", "devctx_summarize", "devctx_suggest", "devctx_init",
      "devctx_config_set", "devctx_config_list">>

\* the arguments of a call (every property a tool reads) and what git, the
\* clock, Math.random, the AI service and readdirSync answer during it
NoArgs ==
    [entry |-> NoRecord, id |-> Undefined, tier |-> Undefined, focus |-> Null,
     to |-> "bo", branch |-> Undefined, limit |-> 0, key |-> "", value |-> 0]

NoEnv ==
    [branch |-> "main", gitUser |-> Undefined, commit |-> Null, changed |-> <<>>,
     now |-> 0, rand |-> "", ai |-> NoAI, isGitRepo |-> FALSE, staged |-> FALSE,
     readdir |-> <<>>]

handlerOfFirstTen(name) ==
    CASE name = "devctx_save" -> "handleSave"
      [] name = "devctx_resume" -> "handleResume"
      [] name = "devctx_log" -> "handleLog"
      [] name = "devctx_diff" -> "handleDiff"
      [] name = "devctx_handoff" -> "handleHandoff"
      [] name = "devctx_share" -> "handleShare"
      [] name = "devctx_summarize" -> "handleSummarize"
      [] name = "devctx_suggest" -> "handleSuggest"
      [] name = "devctx_init" -> "handleInit"
      [] name = "devctx_config_set" -> "handleConfigSet"
      [] OTHER -> "default"

\* the switch of callTool: the handler a name is dispatched to
handlerOf(name) ==
    CASE name = "devctx_save" -> "handleSave"
      [] name = "devctx_resume" -> "handleResume"
      [] name = "devctx_log" -> "handleLog"
      [] name = "devctx_diff" -> "handleDiff"
      [] name = "devctx_handoff" -> "handleHandoff"
      [] name = "devctx_share" -> "handleShare"
      [] name = "devctx_summarize" -> "handleSummarize"
      [] name = "devctx_suggest" -> "handleSuggest"
      [] name = "devctx_init" -> "handleInit"
      [] name = "devctx_config_set" -> "handleConfigSet"
      [] name = "devctx_config_list" -> "handleConfigList"
      [] OTHER -> "default"

\* the handler's reply
run(handler, d, args, env) ==
    CASE handler = "handleSave" ->
            Then(handleSave(d, args.entry, env.branch, env.commit, env.changed,
                            env.now, env.rand), LAMBDA s :
                [NoReply EXCEPT !.threw = s.threw, !.disk = s.disk, !.id = s.id,
                                !.count = s.full.tokenCount, !.value = s.full])
      [] handler = "handleResume" ->
            Then(handleResume(d, env.branch, args.id, args.tier, args.focus), LAMBDA r :
                [NoReply EXCEPT !.threw = r.threw, !.disk = d, !.found = r.found,
                                !.count = r.promptTokens, !.value = r.entry])
      [] handler = "handleLog" -> handleLog(d, args.branch, args.limit, env.readdir)
      [] handler = "handleDiff" -> handleDiff(d, env.branch)
      [] handler = "handleHandoff" ->
            Then(handleHandoff(d, args.entry, args.to, env.branch, env.gitUser,
                               env.now, env.rand), LAMBDA s :
                [NoReply EXCEPT !.threw = s.threw, !.disk = s.disk, !.id = s.id,
                                !.count = s.promptTokens, !.value = s.full])
      [] handler = "handleShare" -> handleShare(d, env.isGitRepo, env.staged)
      [] handler = "handleSummarize" ->
            handleSummarize(d, env.ai, env.branch, env.now, env.rand)
      [] handler = "handleSuggest" -> handleSuggest(d, env.ai, env.branch)
      [] handler = "handleInit" -> handleInit(d)
      [] handler = "handleConfigSet" -> handleConfigSet(d, args.key, args.value)
      [] handler = "handleConfigList" -> handleConfigList(d)

\* callTool: error is the McpError code raised, "none" when the handler's
\* reply is returned
callTool(d, name, args, env) ==
    Then(handlerOf(name), LAMBDA handler :
        IF handler = "default"
        THEN [error |-> "MethodNotFound", handler |-> handler, reply |-> [NoReply EXCEPT !.disk = d]]
        ELSE Then(run(handler, d, args, env), LAMBDA r :
                 [error |-> IF r.threw THEN "InternalError" ELSE "none",
                  handler |-> handler, reply |-> r]))

(***************************************************************************)
(* http.js: the HTTP/SSE server.  http.conns lists the SSE connections     *)
(* accepted so far, each with the id its handler computed and whether its  *)
(* response is still open; http.transports is the Map, in insertion order, *)
(* a transport being named by the number of its connection; http.post is   *)
(* the POST whose body is being read and http.res the response to the last *)
(* POST /message, until the next connect or disconnect.                    *)
(***************************************************************************)
NoPost == [reading |-> FALSE, sessionId |-> Null, by |-> 0]
NoRes == [status |-> 0, sessionId |-> Null, by |-> 0]
NoHttp == [clock |-> 0, conns |-> <<>>, transports |-> <<>>, post |-> NoPost, res |-> NoRes]

\* Map.prototype.set, get, delete and [...map.values()][0]; 0 is undefined
mapHas(m, key) == \E i \in DOMAIN m : m[i].key = key
mapSet(m, key, value) ==
    IF mapHas(m, key)
    THEN [i \in DOMAIN m |-> IF m[i].key = key THEN [key |-> key, value |-> value] ELSE m[i]]
    ELSE Append(m, [key |-> key, value |-> value])
mapGet(m, key) == IF mapHas(m, key) THEN m[CHOOSE i \in DOMAIN m : m[i].key = key].value ELSE 0
mapDelete(m, key) == SelectSeq(m, LAMBDA e : e.key # key)
mapFirst(m) == IF m = <<>> THEN 0 ELSE m[1].value

\* GET /sse at time now: const id = Date.now().toString(); transports.set(id, transport)
sse(h, now) ==
    LET c == Len(h.conns) + 1
        id == ToString(now)
    IN [h EXCEPT !.clock = now, !.conns = Append(@, [id |-> id, open |-> TRUE]),
                 !.transports = mapSet(@, id, c)]

\* res.on("close") of connection c: transports.delete(id)
close(h, c) ==
    [h EXCEPT !.conns[c].open = FALSE, !.transports = mapDelete(@, h.conns[c].id)]

\* POST /message up to the first await: the lookup, and the 400 when it fails
message(h, sessionId) ==
    Then(IF Falsy(sessionId) THEN mapFirst(h.transports) ELSE mapGet(h.transports, sessionId),
         LAMBDA transport :
             IF transport = 0
             THEN [h EXCEPT !.res = [status |-> 400, sessionId |-> sessionId, by |-> 0]]
             ELSE [h EXCEPT !.post = [reading |-> TRUE, sessionId |-> sessionId,
                                      by |-> transport]])

\* the body has been read: transport.handlePostMessage answers, 202 here
handlePostMessage(h) ==
    [h EXCEPT !.post = NoPost,
              !.res = [status |-> 202, sessionId |-> h.post.sessionId, by |-> h.post.by]]

(***************************************************************************)
(* setup.js: writing the devctx entry into an editor's config file.  A     *)
(* JSON object is the set of its properties; a property value is an object *)
(* (of named entries, each kept as the text of its value) or a string.     *)
(* editor is the file at the config path: whether it exists, whether       *)
(* JSON.parse accepts its content (a settings file with comments or        *)
(* trailing commas is a config to the editor, but not strict JSON), the    *)
(* object its content spells, and the block last applied to it.            *)
(***************************************************************************)
Object(entries) == [kind |-> "object", text |-> "", entries |-> entries]
String(text) == [kind |-> "string", text |-> text, entries |-> {}]
Server(name, text) == [name |-> name, entry |-> text]
Property(key, value) == [key |-> key, value |-> value]

stdioBlock ==
    <<Property("mcpServers",
               Object({Server("devctx", "{command: node, args: [index.js], env: {}}")}))>>
httpBlock ==
    <<Property("mcpServers", Object({Server("devctx", "{url: http://localhost:3741/sse}")}))>>
zedBlock ==
    <<Property("context_servers",
               Object({Server("devctx", "{command: {path: node, args: [index.js], env: {}}}")}))>>
vscodeBlock ==
    <<Property("servers",
               Object({Server("devctx", "{type: stdio, command: node, args: [index.js]}")}))>>

NoFile == [exists |-> FALSE, strict |-> FALSE, config |-> {}, applied |-> <<>>]

\* JSON.parse(readFileSync(path)), {} when it throws
readJSON(file) == IF file.strict THEN file.config ELSE {}

has(object, key) == \E p \in object : p.key = key
get(object, key) == (CHOOSE p \in object : p.key = key).value
set(object, key, value) == {p \in object : p.key # key} \cup {Property(key, value)}

\* existing[key] is truthy
truthy(object, key) ==
    has(object, key) /\ (get(object, key).kind = "object" \/ get(object, key).text # "")

\* the own enumerable properties of a value: the entries of an object, the
\* characters of a string under their positions
spread(value) ==
    IF value.kind = "object" THEN value.entries
    ELSE {Server(ToString(i - 1), SubSeq(value.text, i, i)) : i \in 1..Len(value.text)}

\* { ...a, ...b }
merge(a, b) ==
    Object({e \in spread(a) : \A f \in spread(b) : f.name # e.name} \cup spread(b))

\* mergeInto(existing, block), merged so far being merged
RECURSIVE mergeLoop(_, _, _)
mergeLoop(existing, merged, block) ==
    IF block = <<>> THEN merged
    ELSE mergeLoop(existing,
                   IF block[1].value.kind = "object" /\ truthy(existing, block[1].key)
                   THEN set(merged, block[1].key, merge(get(existing, block[1].key), block[1].value))
                   ELSE set(merged, block[1].key, block[1].value),
                   Tail(block))

mergeInto(existing, block) == mergeLoop(existing, existing, block)

applyConfig(file, block) ==
    Then(IF file.exists THEN readJSON(file) ELSE {}, LAMBDA existing :
        [exists |-> TRUE, strict |-> TRUE, config |-> mergeInto(existing, block),
         applied |-> block])

(***************************************************************************)
(* Inputs                                                                  *)
(***************************************************************************)
MaxLen == 2
MaxItems == 2
MaxBudget == 5

\* a goal of 316 characters, one token short of the smallest preset's budget
Line79 == "Keep the checkout API answering under 200 ms while the retry queue is drained. "
LongGoal == Line79 \o Line79 \o Line79 \o Line79

\* a goal of 2528 characters, more than the largest preset's budget
HugeGoal ==
    LongGoal \o LongGoal \o LongGoal \o LongGoal \o LongGoal \o LongGoal \o LongGoal \o LongGoal

Goals == {Null, "uptime", LongGoal}
NextStepPool == {"", "Add test"}
DecisionPool == {"mock", "p-retry"}
ConstraintPool == {"lean"}
ApproachPool ==
    {StrApproach("Tried caching"),
     ObjApproach("Redis", FTrue, "slow"),
     ObjApproach("Polling", FFalse, Undefined),
     ObjApproach("Cron", FString, Undefined),
     ObjApproach(Undefined, FTrue, Undefined),
     NullApproach}
Focuses == {Null, "the flaky test"}
Users == {"ana"}

\* the budgets on either side of each tier boundary
TierEdges ==
    {TIER.MINIMAL.budget, TIER.MINIMAL.budget + 1,
     TIER.STANDARD.budget, TIER.STANDARD.budget + 1}

\* what git and the clock report to a handler, and the tier a caller asks for
Branches == {"main", "feat/x"}
GitUsers == {Undefined, "ana"}
GitChangedFiles == <<"src/app.js">>
GitCommit == "4f2a9c1d7e55"
Rands == {"k3f9"}
TierArgs == {Undefined, "minimal", "standard", "full", "max"}
\* branch names, two of which differ only in a character that the directory
\* name does not keep
BranchNames == Branches \cup {"feat_x"}
\* values for maxEntriesPerBranch
ConfigNumbers == {1}
\* names that toolsList does not hold
OtherNames == {"devctx_delete", "resume", ""}
\* the AI service without a key, answering with an error status, answering
\* with text that is not JSON, and answering with the record parsed in JSON
AIs(parsed) ==
    {NoAI, [NoAI EXCEPT !.key = TRUE, !.status = 500],
     [NoAI EXCEPT !.key = TRUE, !.status = 200],
     [NoAI EXCEPT !.key = TRUE, !.status = 200, !.json = TRUE, !.parsed = parsed]}
MaxSaves == 2
MaxClock == 2

SeqsUpTo(S, n) == UNION {[1..k -> S] : k \in 0..n}

\* an empty list field is either [] or, in a sparse record, missing
Field(s, sparse) == IF s = <<>> /\ sparse THEN NullList ELSE List(s)

\* a record as saveContext stores it, or a sparse one: no task text, no state,
\* no metadata, and its empty lists missing
Record(goal, ns, ds, as, cs, sparse) ==
    [task |-> IF sparse THEN "" ELSE "Fix",
     goal |-> goal,
     state |-> IF sparse THEN Null ELSE "wip",
     nextSteps |-> Field(ns, sparse), decisions |-> Field(ds, sparse),
     approaches |-> Field(as, sparse), constraints |-> Field(cs, sparse),
     filesChanged |-> IF sparse THEN NullList ELSE List(<<"a.js">>),
     branch |-> IF sparse THEN Undefined ELSE "main",
     timestamp |-> IF sparse THEN Undefined ELSE "2026-01-02T03:04:05.000Z",
     commitHash |-> Undefined,
     tokenCount |-> 0, _tokenCount |-> 0, _tier |-> Undefined]

Shapes ==
    {x \in SeqsUpTo(NextStepPool, MaxLen) \X SeqsUpTo(DecisionPool, MaxLen)
           \X SeqsUpTo(ApproachPool, MaxLen) \X SeqsUpTo(ConstraintPool, MaxLen) :
        Len(x[1]) + Len(x[2]) + Len(x[3]) + Len(x[4]) <= MaxItems}

Records ==
    {Record(goal, x[1], x[2], x[3], x[4], sparse) :
        goal \in Goals, x \in Shapes, sparse \in BOOLEAN}

\* the value the last call returned: the callee, its arguments, whether it
\* threw, and what it returned
NoOut ==
    [op |-> "none", budget |-> 0, tier |-> "", focus |-> Null, threw |-> FALSE,
     value |-> NoRecord, first |-> NoRecord, failed |-> <<>>, parts |-> <<>>,
     text |-> "", count |-> 0, found |-> FALSE, id |-> "", asked |-> Undefined,
     tool |-> "", handler |-> "", error |-> "none", ok |-> "absent", entries |-> <<>>,
     branch |-> "", ai |-> NoAI]

Init ==
    /\ entry \in Records
    /\ out = NoOut
    /\ disk = NoDisk
    /\ http = NoHttp
    /\ editor = NoFile

\* the arguments of a devctx_save or devctx_handoff call
HandlerArgs ==
    {Record(goal, <<"Add test">>, <<"mock">>, <<a>>, <<"lean">>, FALSE) :
        goal \in {"uptime", LongGoal, HugeGoal},
        a \in {ObjApproach("Redis", FTrue, "slow"), ObjApproach("Cron", FTrue, Undefined)}}
    \cup {Record(Null, <<>>, <<>>, as, <<>>, TRUE) : as \in {<<>>, <<NullApproach>>}}

\* the arguments of the tool calls: a full record, and one whose approaches
\* hold a null
ToolEntries ==
    {Record("uptime", <<"Add test">>, <<"mock">>, <<ObjApproach("Redis", FTrue, "slow")>>,
            <<"lean">>, FALSE),
     Record(Null, <<>>, <<>>, <<NullApproach>>, <<>>, TRUE)}

\* the connections the server accepts
MaxConns == 3
\* session ids a POST can carry: none, the ids of the connections, and one
\* that no connection has
SessionIds == {Null, "9"} \cup {http.conns[c].id : c \in DOMAIN http.conns}

\* the blocks setup.js applies, and the files it can find at a config path
Blocks == {stdioBlock, httpBlock, zedBlock, vscodeBlock}
Configs ==
    {theme \cup mcp \cup zed :
        theme \in {{}, {Property("theme", String("dark"))}},
        mcp \in {{}, {Property("mcpServers", Object({}))},
                 {Property("mcpServers", Object({Server("github", "{command: gh}")}))},
                 {Property("mcpServers", Object({Server("github", "{command: gh}"),
                                                 Server("devctx", "{command: old}")}))}},
        zed \in {{}, {Property("context_servers", Object({Server("db", "{command: pg}")}))}}}
EditorFiles ==
    {NoFile} \cup {[exists |-> TRUE, strict |-> strict, config |-> config, applied |-> <<>>] :
                      strict \in BOOLEAN, config \in Configs}

InitHandlers ==
    /\ entry \in HandlerArgs
    /\ out = NoOut
    /\ disk = NoDisk
    /\ http = NoHttp
    /\ editor = NoFile

(***************************************************************************)
(* Operations: each call places the record on a fresh heap, runs the       *)
(* function, and leaves behind the record as the heap then holds it.       *)
(***************************************************************************)
Entry == 1

Trimmed(r) == IF r.threw THEN NoRecord ELSE Deep(r.heap, r.ref)

CountTokens ==
    /\ out.op = "none"
    /\ \E text \in {entry.task, entry.goal, entry.state} :
          out' = [NoOut EXCEPT !.op = "countTokens", !.text = ToStr(text),
                               !.count = countTokens(text)]
    /\ UNCHANGED <<entry, disk, http, editor>>

CountEntry ==
    /\ out.op = "none"
    /\ \E h \in {Alloc(EmptyHeap, entry).heap} : \E r \in {countEntryTokens(h, Entry)} :
          /\ entry' = Deep(h, Entry)
          /\ out' = [NoOut EXCEPT !.op = "count", !.threw = r.threw, !.count = r.value]
    /\ UNCHANGED <<disk, http, editor>>

Trim(budget) ==
    /\ out.op = "none"
    /\ \E r \in {trimTobudget(Alloc(EmptyHeap, entry).heap, Entry, budget)} :
          /\ entry' = Deep(r.heap, Entry)
          /\ out' = [NoOut EXCEPT !.op = "trim", !.budget = budget, !.threw = r.threw,
                                  !.tier = tierOf(budget), !.value = Trimmed(r)]
    /\ UNCHANGED <<disk, http, editor>>

\* trimTobudget applied to the record the last trim returned, at the same budget
Retrim ==
    /\ out.op = "trim" /\ ~out.threw
    /\ \E a \in {Alloc(Alloc(EmptyHeap, entry).heap, out.value)} :
       \E r \in {trimTobudget(a.heap, a.ref, out.budget)} :
          /\ entry' = Deep(r.heap, Entry)
          /\ out' = [NoOut EXCEPT !.op = "retrim", !.budget = out.budget,
                                  !.threw = r.threw, !.tier = tierOf(out.budget),
                                  !.first = out.value, !.value = Trimmed(r)]
    /\ UNCHANGED <<disk, http, editor>>

Prompt(tier, focus) ==
    /\ out.op = "none"
    /\ \E r \in {buildPrompt(Alloc(EmptyHeap, entry).heap, Entry, tier, focus)} :
          /\ entry' = Deep(r.heap, Entry)
          /\ out' = [NoOut EXCEPT !.op = "prompt", !.budget = tier.budget,
                                  !.tier = tier.name, !.focus = focus, !.threw = r.threw,
                                  !.value = IF r.threw THEN NoRecord
                                            ELSE Deep(r.heap, Len(r.heap.objs)),
                                  !.failed = r.failed, !.parts = r.parts, !.text = r.text]
    /\ UNCHANGED <<disk, http, editor>>

Handoff(fromUser, toUser) ==
    /\ out.op = "none"
    /\ \E r \in {buildHandoff(Alloc(EmptyHeap, entry).heap, Entry, fromUser, toUser)} :
          /\ entry' = Deep(r.heap, Entry)
          /\ out' = [NoOut EXCEPT !.op = "handoff", !.budget = TIER.FULL.budget,
                                  !.tier = TIER.FULL.name, !.threw = r.threw,
                                  !.value = IF r.threw THEN NoRecord
                                            ELSE Deep(r.heap, Len(r.heap.objs)),
                                  !.failed = r.failed, !.parts = r.parts, !.text = r.text]
    /\ UNCHANGED <<disk, http, editor>>

\* the caller is done with the returned value
Discard ==
    /\ out.op # "none"
    /\ out' = NoOut
    /\ UNCHANGED <<entry, disk, http, editor>>

Next ==
    \/ CountTokens
    \/ CountEntry
    \/ \E b \in (-1..MaxBudget) \cup TierEdges : Trim(b)
    \/ Retrim
    \/ \E t \in {TIER.MINIMAL, TIER.STANDARD, TIER.FULL}, f \in Focuses : Prompt(t, f)
    \/ \E u \in Users : Handoff(u, "bo")
    \/ Discard

Spec == Init /\ [][Next]_vars

(***************************************************************************)
(* Tool calls: entry holds the arguments of the save and handoff calls.    *)
(***************************************************************************)
RECURSIVE indexed(_)
indexed(index) ==
    IF index = {} THEN 0
    ELSE LET x == CHOOSE x \in index : TRUE IN Len(x.entries) + indexed(index \ {x})

HandleSave(branch, now, rand) ==
    /\ out.op = "none" /\ indexed(disk.index) < MaxSaves
    /\ \E r \in {handleSave(disk, entry, branch, GitCommit, GitChangedFiles, now, rand)} :
          /\ disk' = [r.disk EXCEPT !.clock = now]
          /\ out' = [NoOut EXCEPT !.op = "handleSave", !.threw = r.threw, !.id = r.id,
                                  !.value = r.full, !.count = r.full.tokenCount]
    /\ UNCHANGED <<entry, http, editor>>

HandleResume(branch, id, tierArg, focus) ==
    /\ out.op = "none"
    /\ \E r \in {handleResume(disk, branch, id, tierArg, focus)} :
          out' = [NoOut EXCEPT !.op = "handleResume", !.found = r.found, !.threw = r.threw,
                               !.asked = tierArg, !.tier = r.tier, !.budget = r.budget,
                               !.focus = focus, !.first = r.entry, !.value = r.value,
                               !.failed = r.failed,
                               !.parts = r.parts, !.text = r.prompt,
                               !.count = r.promptTokens]
    /\ UNCHANGED <<entry, disk, http, editor>>

HandleHandoff(branch, gitUser, tierArg, now, rand) ==
    /\ out.op = "none" /\ indexed(disk.index) < MaxSaves
    /\ \E r \in {handleHandoff(disk, entry, "bo", branch, gitUser, now, rand)} :
          /\ disk' = [r.disk EXCEPT !.clock = now]
          /\ out' = [NoOut EXCEPT !.op = "handleHandoff", !.threw = r.threw, !.id = r.id,
                                  !.asked = tierArg, !.first = r.full, !.value = r.value,
                                  !.parts = r.parts, !.text = r.prompt,
                                  !.count = r.promptTokens]
    /\ UNCHANGED <<entry, http, editor>>

NextHandlers ==
    \/ \E branch \in Branches, now \in {disk.clock, disk.clock + 1} \cap 0..MaxClock,
          rand \in Rands : HandleSave(branch, now, rand)
    \/ \E branch \in Branches, id \in {Undefined} \cup {x.id : x \in disk.files},
          tierArg \in TierArgs, focus \in Focuses : HandleResume(branch, id, tierArg, focus)
    \/ \E branch \in Branches, gitUser \in GitUsers, tierArg \in TierArgs,
          now \in {disk.clock, disk.clock + 1} \cap 0..MaxClock, rand \in Rands :
              HandleHandoff(branch, gitUser, tierArg, now, rand)
    \/ Discard

SpecHandlers == InitHandlers /\ [][NextHandlers]_vars

(***************************************************************************)
(* The HTTP/SSE server: connects, disconnects and posts in any order       *)
(***************************************************************************)
Sse(now) ==
    /\ Len(http.conns) < MaxConns
    /\ http' = [sse(http, now) EXCEPT !.res = NoRes]
    /\ UNCHANGED <<entry, out, disk, editor>>

Close(c) ==
    /\ http.conns[c].open
    /\ http' = [close(http, c) EXCEPT !.res = NoRes]
    /\ UNCHANGED <<entry, out, disk, editor>>

Message(sessionId) ==
    /\ ~http.post.reading
    /\ http' = message(http, sessionId)
    /\ UNCHANGED <<entry, out, disk, editor>>

HandlePostMessage ==
    /\ http.post.reading
    /\ http' = handlePostMessage(http)
    /\ UNCHANGED <<entry, out, disk, editor>>

NextHttp ==
    \/ \E now \in {http.clock, http.clock + 1} \cap 0..MaxClock : Sse(now)
    \/ \E c \in DOMAIN http.conns : Close(c)
    \/ \E sessionId \in SessionIds : Message(sessionId)
    \/ HandlePostMessage

InitHttp ==
    /\ entry = NoRecord
    /\ out = NoOut
    /\ disk = NoDisk
    /\ http = NoHttp
    /\ editor = NoFile

SpecHttp == InitHttp /\ [][NextHttp]_vars

(***************************************************************************)
(* setup.js applied to one config file                                     *)
(***************************************************************************)
ApplyConfig(block) ==
    /\ editor' = applyConfig(editor, block)
    /\ UNCHANGED <<entry, out, disk, http>>

NextSetup == \E block \in Blocks : ApplyConfig(block)

InitSetup ==
    /\ entry = NoRecord
    /\ out = NoOut
    /\ disk = NoDisk
    /\ http = NoHttp
    /\ editor \in EditorFiles

SpecSetup == InitSetup /\ [][NextSetup]_vars

(***************************************************************************)
(* Tool calls through the dispatcher                                       *)
(***************************************************************************)
\* what the environment answers when nothing is said otherwise
Env ==
    [NoEnv EXCEPT !.gitUser = "ana", !.commit = GitCommit, !.changed = GitChangedFiles,
                  !.now = disk.clock, !.rand = "k3f9", !.isGitRepo = TRUE, !.staged = TRUE]

\* a call comes in the millisecond of the call before it or in a later one
Nows == {disk.clock, disk.clock + 1} \cap 0..MaxClock
\* devctx_handoff and devctx_summarize are called in a later one only
Later == {disk.clock + 1} \cap 0..MaxClock

\* the orders in which readdirSync can list the branch directories
Readdirs ==
    LET dirs == {x.dir : x \in disk.index}
    IN {o \in [1..Cardinality(dirs) -> dirs] : \A i, j \in DOMAIN o : o[i] = o[j] => i = j}

Call(name, args, env) ==
    /\ out.op = "none"
    /\ \E r \in {callTool(disk, name, args, env)} :
          /\ disk' = [r.reply.disk EXCEPT !.clock = env.now]
          /\ out' = [NoOut EXCEPT !.op = "callTool", !.tool = name, !.handler = r.handler,
                                  !.error = r.error, !.threw = r.reply.threw,
                                  !.ok = r.reply.ok, !.text = r.reply.msg,
                                  !.id = r.reply.id, !.count = r.reply.count,
                                  !.found = r.reply.found, !.value = r.reply.value,
                                  !.entries = r.reply.entries, !.branch = env.branch,
                                  !.asked = args.branch, !.ai = env.ai]
    /\ UNCHANGED <<entry, http, editor>>

CallSave ==
    /\ Len(disk.log) < MaxSaves
    /\ \E branch \in BranchNames, now \in Nows :
          Call("devctx_save", [NoArgs EXCEPT !.entry = entry],
               [Env EXCEPT !.branch = branch, !.now = now])

CallResume ==
    \E branch \in BranchNames, id \in {Undefined} \cup {x.id : x \in disk.files} :
        Call("devctx_resume", [NoArgs EXCEPT !.id = id], [Env EXCEPT !.branch = branch])

CallLog ==
    \E branch \in {Undefined} \cup BranchNames, limit \in {0, 1}, readdir \in Readdirs :
        Call("devctx_log", [NoArgs EXCEPT !.branch = branch, !.limit = limit],
             [Env EXCEPT !.readdir = readdir])

CallDiff ==
    \E branch \in BranchNames : Call("devctx_diff", NoArgs, [Env EXCEPT !.branch = branch])

CallHandoff ==
    /\ Len(disk.log) < MaxSaves
    /\ \E branch \in BranchNames, now \in Later :
          Call("devctx_handoff", [NoArgs EXCEPT !.entry = entry],
               [Env EXCEPT !.branch = branch, !.now = now])

CallShare ==
    \E isGitRepo \in BOOLEAN, staged \in BOOLEAN :
        Call("devctx_share", NoArgs, [Env EXCEPT !.isGitRepo = isGitRepo, !.staged = staged])

CallSummarize ==
    /\ Len(disk.log) < MaxSaves
    /\ \E ai \in AIs(entry), branch \in BranchNames, now \in Later :
          Call("devctx_summarize", NoArgs,
               [Env EXCEPT !.ai = ai, !.branch = branch, !.now = now])

CallSuggest ==
    \E ai \in AIs(entry), branch \in BranchNames :
        Call("devctx_suggest", NoArgs, [Env EXCEPT !.ai = ai, !.branch = branch])

CallInit == Call("devctx_init", NoArgs, Env)

CallConfigSet ==
    \E value \in ConfigNumbers :
        Call("devctx_config_set",
             [NoArgs EXCEPT !.key = "maxEntriesPerBranch", !.value = value], Env)

CallConfigList == Call("devctx_config_list", NoArgs, Env)

CallOther == \E name \in OtherNames : Call(name, NoArgs, Env)

NextTools ==
    \/ CallSave
    \/ CallResume
    \/ CallLog
    \/ CallDiff
    \/ CallHandoff
    \/ CallShare
    \/ CallSummarize
    \/ CallSuggest
    \/ CallInit
    \/ CallConfigSet
    \/ CallConfigList
    \/ CallOther
    \/ Discard

InitTools ==
    /\ entry \in ToolEntries
    /\ out = NoOut
    /\ disk = NoDisk
    /\ http = NoHttp
    /\ editor = NoFile

SpecTools == InitTools /\ [][NextTools]_vars

(***************************************************************************)
(* Properties                                                              *)
(***************************************************************************)
\* trimTobudget has returned: out.value is trim(entry, out.budget)
Trimmed0 == out.op = "trim" /\ ~out.threw

RECURSIVE Sum(_)
Sum(costs) == IF costs = <<>> THEN 0 ELSE Head(costs) + Sum(Tail(costs))

IsPrefix(s, t) == Len(s) <= Len(t) /\ \A i \in 1..Len(s) : s[i] = t[i]

ListsEmpty(r) ==
    /\ r.nextSteps.items = <<>> /\ r.decisions.items = <<>>
    /\ r.approaches.items = <<>> /\ r.constraints.items = <<>>

\* C1: with budget >= 0 and cost(task)+cost(state) <= budget, the _tokenCount
\* returned by trimTobudget(record, budget) is <= budget.
C1_TokensWithinBudget ==
    (Trimmed0 /\ out.budget >= 0 /\ baseline(entry) <= out.budget)
        => out.value._tokenCount <= out.budget

\* a trim whose budget admits the baseline and part, not all, of the rest
C1_Witness ==
    /\ Trimmed0 /\ baseline(entry) > 0 /\ baseline(entry) < out.budget
    /\ out.value._tokenCount = out.budget
    /\ Len(out.value.decisions.items) = 1 /\ Len(entry.decisions.items) = 2

\* C2: when cost(task)+cost(state) > budget, tokensUsed is exactly that
\* baseline, the goal is absent and all four lists are empty, zero-cost
\* items of the source lists included.
C2_BaselineOnly ==
    (Trimmed0 /\ baseline(entry) > out.budget)
        => /\ out.value._tokenCount = baseline(entry)
           /\ out.value.goal = Null
           /\ ListsEmpty(out.value)

\* a trim below the baseline of a record holding a goal and a zero-cost step
C2_Witness ==
    /\ Trimmed0 /\ baseline(entry) > out.budget /\ out.budget >= 0
    /\ entry.goal # Null
    /\ \E i \in DOMAIN entry.nextSteps.items : entry.nextSteps.items[i] = ""

\* trimTobudget(rec, budget) as a value
TrimValue(rec, budget) ==
    Then(trimTobudget(Alloc(EmptyHeap, rec).heap, Entry, budget), LAMBDA r : Trimmed(r))

\* every item lo includes is included by hi, field by field
GoalKept(lo, hi) == lo.goal # Null => hi.goal = lo.goal
Within(lo, hi, f) == IsPrefix(lo[f].items, hi[f].items)

\* C3 as claimed: for b1 < b2 the goal and every list item of trim(record, b1)
\* is also in trim(record, b2), in the same field.
C3_Monotone ==
    Trimmed0 =>
        \A b2 \in (out.budget + 1)..(MaxBudget + 1) :
            \E hi \in {TrimValue(entry, b2)} :
                /\ GoalKept(out.value, hi)
                /\ Within(out.value, hi, "nextSteps") /\ Within(out.value, hi, "decisions")
                /\ Within(out.value, hi, "approaches") /\ Within(out.value, hi, "constraints")

\* C3 as amended: for b1 < b2 a goal kept at b1 is kept at b2, and the items of
\* a list kept at b1 are kept at b2 whenever every earlier category (goal, next
\* steps, decisions, approaches, in that order) came out the same at both.
C3_MonotoneGivenEarlier ==
    Trimmed0 =>
        \A b2 \in (out.budget + 1)..(MaxBudget + 1) :
            \E hi \in {TrimValue(entry, b2)} :
                LET lo == out.value
                    g == hi.goal = lo.goal
                    n == g /\ hi.nextSteps = lo.nextSteps
                    d == n /\ hi.decisions = lo.decisions
                    a == d /\ hi.approaches = lo.approaches
                IN /\ GoalKept(lo, hi)
                   /\ g => Within(lo, hi, "nextSteps")
                   /\ n => Within(lo, hi, "decisions")
                   /\ d => Within(lo, hi, "approaches")
                   /\ a => Within(lo, hi, "constraints")

\* a goal kept at both budgets and a next-steps list the larger budget extends
C3_Witness ==
    /\ Trimmed0 /\ out.value.goal # Null /\ Len(out.value.nextSteps.items) = 1
    /\ \E b2 \in (out.budget + 1)..MaxBudget :
          \E hi \in {TrimValue(entry, b2)} :
              hi.goal = out.value.goal /\ Len(hi.nextSteps.items) = 2

\* the next-steps pass stopped at an item that did not fit
StepsCutShort == Trimmed0 /\ Len(out.value.nextSteps.items) < Len(entry.nextSteps.items)

\* C4 as claimed: when the next-steps pass stops at an item that does not fit,
\* decisions and constraints come out empty.
C4_StrictCategoryOrder ==
    StepsCutShort => out.value.decisions.items = <<>> /\ out.value.constraints.items = <<>>

\* the longest prefix of items whose running cost stays within room
LongestFit(items, costs, room) ==
    LET fits(k) == \A j \in 1..k : Sum(SubSeq(costs, 1, j)) <= room
        k == CHOOSE n \in 0..Len(items) :
                 fits(n) /\ \A m \in 0..Len(items) : fits(m) => m <= n
    IN SubSeq(items, 1, k)

UsedAfterSteps(r) ==
    baseline(r) + countTokens(r.goal) + Sum(textCosts(r.nextSteps.items))
UsedAfterApproaches(r) ==
    UsedAfterSteps(r) + Sum(textCosts(r.decisions.items))
    + Sum(approachCosts(r.approaches.items))

\* C4 as amended: when the next-steps pass stops at an item that does not fit,
\* decisions and constraints are still filled from the budget left unspent:
\* each is the longest prefix of its source list that fits after what the
\* earlier categories used.
C4_LaterCategoriesUseLeftover ==
    StepsCutShort =>
        /\ out.value.decisions.items =
               LongestFit(entry.decisions.items, textCosts(entry.decisions.items),
                          out.budget - UsedAfterSteps(out.value))
        /\ out.value.constraints.items =
               LongestFit(entry.constraints.items, textCosts(entry.constraints.items),
                          out.budget - UsedAfterApproaches(out.value))

\* a next step was refused and a decision taken with the budget it left
C4_Witness ==
    /\ StepsCutShort /\ out.value.nextSteps.items = <<>>
    /\ Len(out.value.decisions.items) = 1 /\ out.value._tokenCount > baseline(entry)

\* C5 as claimed: nextSteps, decisions, constraints and approaches of the
\* result are each a prefix of the same-named list of the source record.
C5_PrefixOfSource ==
    Trimmed0 =>
        /\ Within(out.value, entry, "nextSteps") /\ Within(out.value, entry, "decisions")
        /\ Within(out.value, entry, "constraints") /\ Within(out.value, entry, "approaches")

\* the source's approaches that are structured and have failed set
FailedOnly(items) == SelectSeq(items, LAMBDA a : a.kind = "object" /\ a.failed \in {FTrue, FString})

\* C5 as amended: nextSteps, decisions and constraints are prefixes of the
\* source lists; approaches is a prefix of the source's failed-only entries,
\* in their original order.
C5_PrefixOfEligible ==
    Trimmed0 =>
        /\ Within(out.value, entry, "nextSteps") /\ Within(out.value, entry, "decisions")
        /\ Within(out.value, entry, "constraints")
        /\ IsPrefix(out.value.approaches.items, FailedOnly(entry.approaches.items))

\* a failed approach kept from behind a bare string the result leaves out
C5_Witness ==
    /\ Trimmed0 /\ Len(entry.approaches.items) = 2
    /\ entry.approaches.items[1].kind = "string"
    /\ out.value.approaches.items = <<entry.approaches.items[2]>>

\* what idempotence compares
TrimView(r) ==
    <<r.goal, r.nextSteps.items, r.decisions.items, r.approaches.items,
      r.constraints.items, r._tokenCount, r._tier>>

\* C6: trimming the result of a trim again at the same budget returns the same
\* goal, lists, tokensUsed and tier.
C6_Idempotent ==
    out.op = "retrim" => ~out.threw /\ TrimView(out.value) = TrimView(out.first)

\* a second trim of a result that had lost its goal and part of a list
C6_Witness ==
    /\ out.op = "retrim" /\ entry.goal # Null /\ out.first.goal = Null
    /\ out.first.nextSteps.items # <<>>
    /\ Len(out.first.nextSteps.items) < Len(entry.nextSteps.items)

\* C7: every entry of the result's approaches, and every entry rendered in the
\* "Already failed" line, is a structured approach whose failed is exactly true.
C7_FailedExactlyTrue ==
    LET strict(items) ==
            \A i \in DOMAIN items : items[i].kind = "object" /\ items[i].failed = FTrue
    IN /\ Trimmed0 => strict(out.value.approaches.items)
       /\ (out.op = "prompt" /\ ~out.threw) => strict(out.failed)

\* C8: the result's goal is the source goal or absent, and a source goal is
\* kept exactly when cost(task)+cost(state)+cost(goal) <= budget.
C8_GoalAllOrNothing ==
    Trimmed0 =>
        /\ out.value.goal \in {entry.goal, Null}
        /\ ~Falsy(entry.goal) =>
               (out.value.goal = entry.goal
                    <=> baseline(entry) + countTokens(entry.goal) <= out.budget)

\* a goal dropped whole although part of it, and a whole next step, still fit
C8_Witness ==
    /\ Trimmed0 /\ entry.goal # Null /\ out.value.goal = Null
    /\ out.budget > baseline(entry) /\ out.value.nextSteps.items # <<>>

\* C9: no call changes the source record.
C9_SourceUnchanged == [][entry' = entry]_vars

\* a prompt built from a copy that lost entries the source still holds
C9_Witness ==
    /\ out.op = "prompt" /\ ~out.threw
    /\ Len(out.value.approaches.items) < Len(entry.approaches.items)
    /\ out.value._tier = "minimal" /\ entry._tier = Undefined

\* C10: countTokens, countEntryTokens, trimTobudget and buildPrompt return a
\* value for every record, malformed approach entries included.
C10_NeverThrows ==
    out.op \in {"countTokens", "count", "trim", "prompt"} => ~out.threw

\* C11: for every record and every budget <= 0 the result of trimTobudget is
\* baseline-only: the goal absent, the four lists empty, and tokensUsed equal
\* to cost(task)+cost(state).
C11_NonPositiveBudgetBaselineOnly ==
    (Trimmed0 /\ out.budget <= 0)
        => /\ out.value.goal = Null
           /\ ListsEmpty(out.value)
           /\ out.value._tokenCount = baseline(entry)

\* the label the presets' budgets give: 80 and below, 81 to 250, above 250
TierLabel(budget) ==
    IF budget <= 80 THEN "minimal" ELSE IF budget <= 250 THEN "standard" ELSE "full"

\* C12: the tier label of trimTobudget's result is a function of the budget
\* alone: "minimal" up to 80, "standard" from 81 to 250, "full" above 250,
\* whatever the record holds and however much of it was trimmed.
C12_TierFromBudgetAlone ==
    Trimmed0 => out.value._tier = TierLabel(out.budget)

\* a trim at 81 that kept a goal a trim at 80 drops, labelled "standard"
C12_Witness ==
    /\ Trimmed0 /\ out.budget = 81 /\ out.value._tier = "standard"
    /\ entry.goal = LongGoal /\ out.value.goal = LongGoal
    /\ TrimValue(entry, 80).goal = Null /\ TrimValue(entry, 80)._tier = "minimal"

\* cost(record) as the sum over task, goal, state, the text lists, and
\* cost(description) + cost(reason) of every approach
RecordCost(rec) ==
    Sum([i \in 1..3 |-> countTokens(<<rec.task, rec.goal, rec.state>>[i])])
    + Sum(textCosts(rec.decisions.items)) + Sum(textCosts(rec.nextSteps.items))
    + Sum(textCosts(rec.constraints.items)) + Sum(textCosts(rec.filesChanged.items))
    + Sum([i \in DOMAIN rec.approaches.items |->
              countTokens(rec.approaches.items[i].description)
              + countTokens(rec.approaches.items[i].reason)])

\* C13: the tokenCount of every record saveContext has stored equals
\* cost(record): the sum of cost over task, goal, state, every decision, next
\* step, constraint and filesChanged entry, plus cost(description) +
\* cost(reason) of every approach, an absent description or reason counting 0.
C13_StoredTokenCount ==
    \A x \in disk.files : x.rec.tokenCount = RecordCost(x.rec)

\* buildPrompt has returned: out.parts are the sections it joined, out.value
\* the trimmed copy they were rendered from
Prompted == out.op = "prompt" /\ ~out.threw

HasPrefix(s, p) == Len(s) >= Len(p) /\ SubSeq(s, 1, Len(p)) = p

\* the sections of a resume prompt in the order claimed, each by the label
\* that opens it; the closing directive opens with a line break
Labels ==
    <<"You are pair-programming on: ", "Why: ", "State: ", "Constraints: ",
      "Settled decisions (don't relitigate): ", "Already failed - do NOT suggest: ",
      "Next: ", "Backlog: ", "Branch: ", "\n">>

SectionOf(part) ==
    CHOOSE i \in 1..Len(Labels) :
        HasPrefix(part, Labels[i]) /\ \A j \in 1..(i - 1) : ~HasPrefix(part, Labels[j])

\* the data section i renders is present
SectionData(i, rec, src) ==
    CASE i = 1 -> ~Falsy(rec.task)
      [] i = 2 -> ~Falsy(rec.goal)
      [] i = 3 -> ~Falsy(rec.state)
      [] i = 4 -> rec.constraints.items # <<>>
      [] i = 5 -> rec.decisions.items # <<>>
      [] i = 6 -> failedFilter(rec.approaches.items) # <<>>
      [] i = 7 -> rec.nextSteps.items # <<>>
      [] i = 8 -> Len(rec.nextSteps.items) > 1
      [] i = 9 -> ~Falsy(src.branch) /\ ~Falsy(src.timestamp)
      [] OTHER -> TRUE

\* C14: the sections of a resume prompt come in the order anchor, Why, State,
\* Constraints, Settled decisions, Already failed, Next, Backlog, metadata
\* footer, closing directive, and a section is emitted only when the data it
\* renders is present, so none shows empty or placeholder content.
C14_OrderedAndOnlyWithData ==
    Prompted =>
        /\ \A i, j \in DOMAIN out.parts :
               i < j => SectionOf(out.parts[i]) < SectionOf(out.parts[j])
        /\ \A i \in DOMAIN out.parts :
               SectionData(SectionOf(out.parts[i]), out.value, entry)

\* the closing directive for a focus and for whether there is a next step
ClosingOf(focus, hasStep) ==
    IF focus # Null THEN "\nFocus: " \o focus
    ELSE IF hasStep THEN "\nContinue from next step. Ask clarifying questions if needed."
    ELSE "\nConfirm you understand the context, then ask what to work on."

\* the prompt ends with the directive, and holds no other
EndsWithOnly(closing) ==
    /\ out.parts # <<>> /\ out.parts[Len(out.parts)] = closing
    /\ \A i \in 1..(Len(out.parts) - 1) : SectionOf(out.parts[i]) # Len(Labels)

\* C15 as claimed: a resume prompt ends with exactly one closing directive:
\* the focus text if a focus was supplied, else "continue from next step" if
\* the record has any next step, else "ask what to work on".
C15_ClosingFromRecord ==
    Prompted => EndsWithOnly(ClosingOf(out.focus, entry.nextSteps.items # <<>>))

\* C15 as amended: a resume prompt ends with exactly one closing directive:
\* the focus text if a focus was supplied, else "continue from next step" if
\* the trimmed record retains any next step, else "ask what to work on".
C15_ClosingFromTrimmed ==
    Prompted => EndsWithOnly(ClosingOf(out.focus, out.value.nextSteps.items # <<>>))

\* a prompt without focus for a record whose only next step did not fit
C15_Witness ==
    /\ Prompted /\ out.focus = Null
    /\ entry.nextSteps.items # <<>> /\ out.value.nextSteps.items = <<>>
    /\ out.parts[Len(out.parts)]
           = "\nConfirm you understand the context, then ask what to work on."

\* the parts of the prompt that are section i
PartsOf(i) == SelectSeq(out.parts, LAMBDA part : SectionOf(part) = i)

\* C16: the Next line of a resume prompt shows the first element of the
\* trimmed next-steps list and nothing more; a Backlog line, holding the rest
\* of the trimmed list, is emitted exactly when more than one trimmed next
\* step remains and the tier is not minimal.
C16_NextAndBacklog ==
    Prompted =>
        LET ns == out.value.nextSteps.items
        IN /\ PartsOf(7) = IF ns = <<>> THEN <<>> ELSE <<"Next: " \o ns[1]>>
           /\ PartsOf(8) # <<>> <=> (Len(ns) > 1 /\ out.tier # "minimal")
           /\ PartsOf(8) # <<>> => PartsOf(8) = <<"Backlog: " \o join(Tail(ns), " | ")>>

\* a minimal prompt that keeps two next steps and shows one
C16_Witness ==
    /\ Prompted /\ out.tier = "minimal" /\ Len(out.value.nextSteps.items) = 2
    /\ PartsOf(7) = <<"Next: " \o out.value.nextSteps.items[1]>> /\ PartsOf(8) = <<>>

\* devctx_handoff has returned: out.first is the record it saved, out.value
\* the trimmed copy its prompt was rendered from, out.asked the tier requested
HandedOff == out.op = "handleHandoff" /\ ~out.threw

ContentCost(rec) ==
    baseline(rec) + countTokens(rec.goal)
    + Sum(textCosts(rec.nextSteps.items)) + Sum(textCosts(rec.decisions.items))
    + Sum(approachCosts(rec.approaches.items)) + Sum(textCosts(rec.constraints.items))

Resumed == out.op = "handleResume" /\ out.found /\ ~out.threw

\* the budget of the preset a tier name names
PresetBudget(name) ==
    IF name = "minimal" THEN 80 ELSE IF name = "standard" THEN 250 ELSE 600

\* C19: the tier devctx_resume reports is one of minimal, standard and full,
\* and the prompt it returns was composed from the record trimmed at the
\* budget of that preset (80, 250, 600), whatever tier argument was given.
C19_ReportedTierIsUsed ==
    Resumed =>
        /\ out.tier \in {"minimal", "standard", "full"}
        /\ out.value = TrimValue(out.first, PresetBudget(out.tier))

\* the approaches that are structured and whose failed is exactly true
StrictlyFailed(items) == SelectSeq(items, LAMBDA a : a.kind = "object" /\ a.failed = FTrue)

\* C20: per category, in the order goal, next steps, decisions, failed
\* approaches, constraints, the retained items are exactly the longest prefix
\* of the source list (for approaches, of its failed-only subsequence) whose
\* running cost, added to what the earlier categories used, stays within the
\* budget; nothing after the first item that does not fit is retained.
C20_GreedyLongestPrefix ==
    Trimmed0 =>
        LET r == out.value
            afterGoal == baseline(entry) + countTokens(r.goal)
            afterDecisions == UsedAfterSteps(r) + Sum(textCosts(r.decisions.items))
            failedOnly == StrictlyFailed(entry.approaches.items)
        IN /\ r.nextSteps.items =
                  LongestFit(entry.nextSteps.items, textCosts(entry.nextSteps.items),
                             out.budget - afterGoal)
           /\ r.decisions.items =
                  LongestFit(entry.decisions.items, textCosts(entry.decisions.items),
                             out.budget - UsedAfterSteps(r))
           /\ r.approaches.items =
                  LongestFit(failedOnly, approachCosts(failedOnly),
                             out.budget - afterDecisions)
           /\ r.constraints.items =
                  LongestFit(entry.constraints.items, textCosts(entry.constraints.items),
                             out.budget - UsedAfterApproaches(r))

\* a failed approach as it is to be shown: "description (reason)", or
\* "description" alone when it has no reason
Shown(a) ==
    IF a.reason \in {Null, Undefined, ""} THEN a.description
    ELSE a.description \o " (" \o a.reason \o ")"

\* every retained approach has a description to show
Described(items) == \A i \in DOMAIN items : items[i].description \notin {Null, Undefined}

EligibleCost(rec) ==
    baseline(rec) + countTokens(rec.goal)
    + Sum(textCosts(rec.nextSteps.items)) + Sum(textCosts(rec.decisions.items))
    + Sum(textCosts(rec.constraints.items))
    + Sum(approachCosts(StrictlyFailed(rec.approaches.items)))

\* C22: when the budget is at least the cost of everything eligible, the
\* result keeps the goal, every next step, decision and constraint and every
\* failed approach, and its tokensUsed is that cost.
C22_SufficientBudgetKeepsAll ==
    (Trimmed0 /\ out.budget >= EligibleCost(entry)) =>
        /\ Falsy(entry.goal) \/ out.value.goal = entry.goal
        /\ out.value.nextSteps.items = entry.nextSteps.items
        /\ out.value.decisions.items = entry.decisions.items
        /\ out.value.constraints.items = entry.constraints.items
        /\ out.value.approaches.items = StrictlyFailed(entry.approaches.items)
        /\ out.value._tokenCount = EligibleCost(entry)

\* a tool call went through the dispatcher and its handler returned
Called(name) == out.op = "callTool" /\ out.tool = name /\ out.error = "none"

\* the saveContext calls made with branch b, oldest first
SavesOn(b) == SelectSeq(disk.log, LAMBDA s : s.branch = b)

\* C23: after any sequence of saves, loadLatest(branch) returns the entry
\* written by the most recent saveContext on that branch, and null only if no
\* entry was ever saved on it.
C23_LatestOnBranch ==
    \A b \in BranchNames :
        loadLatest(disk, b) = IF SavesOn(b) = <<>> THEN [found |-> FALSE, rec |-> NoRecord]
                              ELSE [found |-> TRUE, rec |-> SavesOn(b)[Len(SavesOn(b))].rec]

\* the saveContext calls that wrote to the directory dir, oldest first
SavesTo(dir) == SelectSeq(disk.log, LAMBDA s : s.dir = dir)

\* an index lists the last saves to its directory, the newest first
NewestFirst(x) ==
    /\ Len(x.entries) <= Len(SavesTo(x.dir))
    /\ \A i \in DOMAIN x.entries :
          LET s == SavesTo(x.dir)[Len(SavesTo(x.dir)) + 1 - i]
          IN x.entries[i].id = s.id /\ x.entries[i].timestamp = s.rec.timestamp

\* every id of an index is found by loadById under every name of its branch
Loadable(x) ==
    \A i \in DOMAIN x.entries, b \in BranchNames :
        sanitize(b) = x.dir => loadById(disk, x.entries[i].id, b).found

\* a tool call that saved an entry has just returned
Saved ==
    /\ out.op = "callTool" /\ out.error = "none"
    /\ out.handler = "handleSave" \/ out.handler = "handleHandoff"
       \/ (out.handler = "handleSummarize" /\ out.ok = "true")

OnlyOwn(a) ==
    /\ loadLatest(disk, a).found => loadLatest(disk, a).rec.branch = a
    /\ \A x \in disk.files : loadById(disk, x.id, a).found => loadById(disk, x.id, a).rec.branch = a
    /\ \A readdir \in Readdirs :
          LET listed == listEntries(disk, a, 10, readdir)
          IN \A i \in DOMAIN listed :
                \E j \in DOMAIN disk.log :
                    /\ disk.log[j].branch = a /\ disk.log[j].id = listed[i].id
                    /\ disk.log[j].rec.timestamp = listed[i].timestamp

\* C25: storage is branch-scoped: for distinct branch names A and B,
\* loadLatest(A), loadById(id, A) and listEntries(A) never return an entry
\* that was saved with branch B.
C25_BranchScoped == \A a \in BranchNames : OnlyOwn(a)

\* C26: initRepo is idempotent.  On a repository that is already initialised
\* devctx_init reports "Already initialized" and leaves config.json, the entry
\* files and the indexes as they are, and the initRepo inside devctx_save and
\* saveContext leaves config.json, with the value devctx_config_set wrote, and
\* every entry saved before as they are.
C26_InitIdempotent ==
    [][(out'.op = "callTool" /\ disk.config.exists) =>
          /\ initRepo(disk) = disk
          /\ out'.handler = "handleInit" =>
                /\ out'.ok = "true" /\ out'.text = "Already initialized"
                /\ disk'.config = disk.config /\ disk'.files = disk.files
                /\ disk'.index = disk.index
          /\ out'.handler \in {"handleSave", "handleHandoff", "handleSummarize"} =>
                /\ disk'.config = disk.config
                /\ \A x \in disk.files :
                      x \in disk'.files \/ (out'.error = "none" /\ x.id = out'.id)]_vars

\* devctx_init called after devctx_config_set and a save
C26_Witness ==
    /\ out.op = "callTool" /\ out.handler = "handleInit" /\ out.text = "Already initialized"
    /\ disk.config.maxEntriesPerBranch = 1 /\ disk.files # {}

\* the AI call fails or its reply is not JSON
AIFails(ai) == ~ai.key \/ ai.status # 200 \/ ~ai.json

\* C27: when the AI call fails (no key, a status that is not OK) or its reply
\* is not valid JSON, devctx_summarize and devctx_suggest return a result with
\* ok false and a message instead of raising an error, and devctx_summarize
\* leaves the store as it was: no entry file, index or config is written.
C27_AIFailureIsAResult ==
    [][(/\ out'.op = "callTool"
        /\ out'.tool \in {"devctx_summarize", "devctx_suggest"}
        /\ AIFails(out'.ai)) =>
          /\ out'.error = "none" /\ out'.ok = "false" /\ out'.text # ""
          /\ disk' = [disk EXCEPT !.clock = disk'.clock]]_vars

\* devctx_summarize got a reply that is not JSON, with an entry in the store
C27_Witness ==
    /\ out.op = "callTool" /\ out.tool = "devctx_summarize" /\ out.ok = "false"
    /\ out.ai.key /\ out.ai.status = 200 /\ ~out.ai.json
    /\ disk.files # {}

\* the names toolsList advertises
Advertised == {toolsList[i] : i \in DOMAIN toolsList}

EntriesOf(c) == {i \in DOMAIN http.transports : http.transports[i].value = c}

\* the open connections whose id is sessionId
OpenWith(sessionId) ==
    {c \in DOMAIN http.conns : http.conns[c].open /\ http.conns[c].id = sessionId}

\* C29: after any interleaving of connects, disconnects and posts the
\* registry holds exactly one entry for each open connection and none for a
\* closed one; a POST with a sessionId is handled by the transport of the
\* connection with that id, and is rejected with 400 only when no connection
\* with that id is open.
C29_RegistryMatchesConnections ==
    /\ \A c \in DOMAIN http.conns :
          Cardinality(EntriesOf(c)) = IF http.conns[c].open THEN 1 ELSE 0
    /\ http.res.status = 400 => OpenWith(http.res.sessionId) = {}
    /\ (http.res.status = 202 /\ ~Falsy(http.res.sessionId)) =>
          http.conns[http.res.by].id = http.res.sessionId

\* the keys of a block and the names of the entries it puts under a key
BlockKeys(block) == {block[i].key : i \in DOMAIN block}
BlockNames(block, key) ==
    UNION {{e.name : e \in block[i].value.entries} : i \in {j \in DOMAIN block : block[j].key = key}}

\* every property outside the block, and every entry under a key of the
\* block that the block does not name, is in the config after as it was before
Preserved(before, after, block) ==
    \A p \in before :
        IF p.key \notin BlockKeys(block) THEN p \in after
        ELSE p.value.kind = "object" =>
                 /\ has(after, p.key)
                 /\ \A e \in p.value.entries :
                       e.name \notin BlockNames(block, p.key) => e \in get(after, p.key).entries

\* C30: applyConfig adds the devctx entry to an existing editor config without
\* destroying other keys: every top-level key and every other server entry
\* under the merged key keeps its value, and applying the same block a second
\* time changes nothing.
C30_MergePreservesConfig ==
    [][editor.exists =>
          /\ Preserved(editor.config, editor'.config, editor'.applied)
          /\ applyConfig(editor', editor'.applied).config = editor'.config]_vars
====
